---- MODULE Spec2Model ----
(***************************************************************************)
(* Model of proofreader/data/splitter.py: the gap sequencer                *)
(* (SliceDataset), its partition over DataLoader workers, and the          *)
(* single-pair example builder (NeuriteDataset).                           *)
(*                                                                         *)
(* Volumes are represented by what the code reads from them: their depth   *)
(* (shape[0]) and, at each call into numpy / cc3d / proofreader.utils, the *)
(* value that call returns, drawn from the bounded sets below.             *)
(***************************************************************************)
EXTENDS Integers, Sequences, FiniteSets, TLC

VARIABLES
    vols,   \* SliceDataset.vols: the depth (shape[0]) of each cleaned volume
    cfg,    \* SliceDataset constructor arguments (read-only after __init__)
    sd,     \* SliceDataset instances: one per process that iterates the dataset
    nd      \* the NeuriteDataset instance and its current __getitem__ call

vars == <<vols, cfg, sd, nd>>

(***************************************************************************)
(* Bounds of the model.                                                    *)
(***************************************************************************)
MaxVols == 2        \* number of volumes in vols
MaxExtra == 1       \* slices a volume has beyond num_slices + 2*context_slices + 1
MaxSlices == 2      \* largest num_slices
MaxContext == 1     \* largest context_slices
MaxTop == 1         \* largest relabeled id on the slice above a gap
MaxCand == 2        \* largest number of candidates of one top fragment
MaxOriginal == 2    \* number of original identifiers among the candidates of a gap
MaxLoads == 2       \* batch loads followed in randomized mode (the walk has no end)
MaxWorkers == 2     \* largest num_workers of the DataLoader
MaxWorkerExtra == 3 \* largest depth of a worker's volume above the least depth
MaxPairDepth == 4   \* largest depth of a NeuriteDataset volume
MaxPairSlices == 1  \* largest end of the num_slices range of a NeuriteDataset
MaxFrag == 2        \* largest number of relabeled fragments of one class in a section
MaxClasses == 1     \* largest number of seed classes of a NeuriteDataset
RecursionLimit == 2 \* get_example frames the interpreter allows (sys.getrecursionlimit)

(***************************************************************************)
(* Helpers on sequences and numbers.                                       *)
(***************************************************************************)
Min(a, b) == IF a <= b THEN a ELSE b

Range(seq) == {seq[i] : i \in 1..Len(seq)}

RECURSIVE SumSeq(_)
SumSeq(seq) == IF seq = <<>> THEN 0 ELSE Head(seq) + SumSeq(Tail(seq))

\* seq[:n] of Python for 0 <= n
Prefix(seq, n) == SubSeq(seq, 1, Min(n, Len(seq)))

\* all sequences over S of length 0..n
RECURSIVE SeqsUpTo(_, _)
SeqsUpTo(S, n) ==
    IF n = 0 THEN {<<>>}
    ELSE LET shorter == SeqsUpTo(S, n - 1)
         IN shorter \cup {Append(q, x) : q \in {r \in shorter : Len(r) = n - 1}, x \in S}

\* the ascending sequence of the elements of a finite set of integers
RECURSIVE SortedSeq(_)
SortedSeq(S) ==
    IF S = {} THEN <<>>
    ELSE LET m == CHOOSE x \in S : \A y \in S : x <= y
         IN <<m>> \o SortedSeq(S \ {m})

\* all orderings of the elements of a sequence without repetitions
RECURSIVE Orderings(_)
Orderings(S) ==
    IF S = {} THEN {<<>>}
    ELSE UNION {{<<x>> \o q : q \in Orderings(S \ {x})} : x \in S}

\* number of decimal digits of n >= 0, as str(n) prints it
RECURSIVE NumDigits(_)
NumDigits(n) == IF n < 10 THEN 1 ELSE 1 + NumDigits(n \div 10)

RECURSIVE Pow10(_)
Pow10(k) == IF k = 0 THEN 1 ELSE 10 * Pow10(k - 1)

\* int(f'{a}{b}') for a, b >= 0
ConcatDigits(a, b) == a * Pow10(NumDigits(b)) + b

\* math.ceil(a / float(b)) for b > 0, a any integer
CeilDiv(a, b) == -((-a) \div b)

\* the element of a one-element set: The({F(x) : x \in {e}}) is F(e) with e
\* evaluated once
The(S) == CHOOSE x \in S : TRUE

NoRange == <<>>     \* drop_start_worker_range = None
NoVolume == <<>>    \* vol_relabeled = None
NoBatch == [examples |-> <<>>, labels |-> <<>>]   \* test_iteration_batch = None


(***************************************************************************)
(* SliceDataset: the gap sequencer.                                        *)
(*                                                                         *)
(* An instance is a record of the object's attributes (source names), the  *)
(* status of the generator that build_generator returns, and history       *)
(* fields that only record what happened (gaps, full_labels, loads,        *)
(* h_no_true, h_multi_true, converted, out).                               *)
(***************************************************************************)

\* SliceDataset.__init__: the attributes of a freshly constructed instance
NewSliceDataset ==
    [ gen_pc |-> "none",              \* none, created, running, done, raised
      err |-> "",                     \* the exception that ended the generator
      exc |-> "",                     \* the exception in flight inside a call
      iter_range |-> NoRange,         \* argument bound by build_generator(...)
      drop_start_worker_range |-> NoRange,
      worker_id |-> 0,
      test_iteration_batch |-> NoBatch,
      test_iteration_i |-> 0,
      test_iteration_len |-> 0,
      top_neurites |-> <<>>,
      cur_neurite_i |-> 0,
      vol_relabeled |-> NoVolume,
      cur_drop_start |-> cfg.context_slices - 1,
      cur_vol_i |-> 0,
      no_true |-> 0,
      multi_true |-> 0,
      num_true |-> 0,
      total_examples |-> 0,
      gaps |-> <<>>,                  \* history: the (volume, gap start) pairs entered
      top_slice |-> <<>>,             \* history: np.unique of the slice above the current gap
      full_origs |-> <<>>,            \* history: original ids of the last batch's bottom fragments
      full_labels |-> <<>>,           \* history: labels of the last batch before truncation
      loads |-> 0,                    \* history: batches loaded
      h_no_true |-> 0,                \* history: loaded batches without a positive
      h_multi_true |-> 0,             \* history: loaded batches with several positives
      converted |-> {},               \* history: value sets that reached point-cloud conversion
      out |-> [x |-> <<>>, y |-> <<>>] ]   \* history: the item last yielded

Raise(s, e) == [s EXCEPT !.exc = e]

\* self.vols[self.cur_vol_i] is defined (otherwise get_cur_vol raises IndexError)
CurVolOk(s) == s.cur_vol_i \in 0..(Len(vols) - 1)

GetCurVol(s) == vols[s.cur_vol_i + 1]

GetCurDrop(s) == <<s.cur_drop_start, s.cur_drop_start + cfg.num_slices>>

GetDropStartRange(s) ==
    LET range_start == cfg.context_slices
        range_stop == GetCurVol(s) - cfg.num_slices - cfg.context_slices
    IN IF s.drop_start_worker_range # NoRange
       THEN s.drop_start_worker_range
       ELSE <<range_start, range_stop>>

\* NextVolAtEnd leaving the volume one gap start too late
NextVolAtEndLate(s2, r) ==
    IF s2.exc # "" THEN s2
    ELSE IF s2.cur_drop_start > r[2]
    THEN IF s2.cur_vol_i + 1 >= Len(vols)
         THEN Raise([s2 EXCEPT !.cur_vol_i = @ + 1, !.cur_drop_start = r[1]], "StopIteration")
         ELSE [s2 EXCEPT !.cur_vol_i = @ + 1, !.cur_drop_start = r[1]]
    ELSE s2

\* increment_vol_and_drop after the random draw: "if we have reached the end
\* of the vol, do to next vol"
NextVolAtEnd(s2, r) ==
    IF s2.exc # "" THEN s2
    ELSE IF s2.cur_drop_start >= r[2]
    THEN IF s2.cur_vol_i + 1 >= Len(vols)
         THEN Raise([s2 EXCEPT !.cur_vol_i = @ + 1, !.cur_drop_start = r[1]], "StopIteration")
         ELSE [s2 EXCEPT !.cur_vol_i = @ + 1, !.cur_drop_start = r[1]]
    ELSE s2

IncrementVolAndDrop(s, rnd_drop, rnd_vol) ==
    IF ~CurVolOk(s) THEN Raise([s EXCEPT !.cur_drop_start = @ + 1], "IndexError")
    ELSE The({NextVolAtEnd(
                  IF cfg.randomize
                  THEN IF r[1] > r[2] - 1
                       THEN Raise([s EXCEPT !.cur_drop_start = @ + 1], "ValueError")
                       ELSE [s EXCEPT !.cur_drop_start = rnd_drop, !.cur_vol_i = rnd_vol]
                  ELSE [s EXCEPT !.cur_drop_start = @ + 1],
                  r) :
              r \in {GetDropStartRange(s)}})

\* np.delete(np.unique(vol_relabeled[drop_start-1]), 0): the sorted distinct
\* values of the slice above the gap without the first of them
TopNeurites(uniq) == Tail(uniq)
\* ThreeClasses without the sanity check
AnyClasses(all_classes) == TRUE

\* the sanity check of convert_volumetric_to_final and get_example
ThreeClasses(all_classes) == Cardinality(all_classes) = 3

\* crop_where + cc3d.connected_components + np.unique of a stitched candidate:
\* background survives the crop (the gap slices are empty) and the components
\* are numbered from 1
CandidateClasses(cand) == 0..cand.ncomp

\* index (1-based) of the first candidate failing the sanity check, 0 if none
FirstBad(cands) ==
    LET bad == {i \in 1..Len(cands) : ~ThreeClasses(CandidateClasses(cands[i]))}
    IN IF bad = {} THEN 0 ELSE CHOOSE i \in bad : \A j \in bad : i <= j

\* get_classes_sorted_by_distance(d_vol, top_c, method='mean'): n candidates,
\* nearest first; a candidate is named by its rank in that order
ProximityRanks(n) == [i \in 1..n |-> i]

\* the original identifier label_map gives the top fragment (identifiers are
\* names: the top fragment's is taken to be the first)
TopOriginal == 1
\* GroundTruth with the comparison turned round
GroundTruthInverted(top_orig, bot_orig) == IF top_orig = bot_orig THEN 0 ELSE 1

\* int(label_map[top_c] == label_map[bot_c])
GroundTruth(top_orig, bot_orig) == IF top_orig = bot_orig THEN 1 ELSE 0
\* GetExamplesFromTopClass stacking its examples with torch.stack, which
\* refuses an empty list
GetExamplesByStacking(s, c, cands) ==
    LET drop == GetCurDrop(s)
        bad == FirstBad(cands)
        done == IF bad = 0 THEN Len(cands) ELSE bad - 1
        conv == {CandidateClasses(cands[i]) : i \in 1..done}
    IN IF drop[2] >= GetCurVol(s)
       THEN [exc |-> "IndexError", examples |-> <<>>, labels |-> <<>>, origs |-> <<>>,
             converted |-> {}]
       ELSE IF bad # 0
       THEN [exc |-> "AssertionError", examples |-> <<>>, labels |-> <<>>, origs |-> <<>>,
             converted |-> conv]
       ELSE IF Len(cands) = 0
       THEN [exc |-> "RuntimeError", examples |-> <<>>, labels |-> <<>>, origs |-> <<>>,
             converted |-> {}]
       ELSE [exc |-> "", examples |-> ProximityRanks(Len(cands)),
             labels |-> [i \in 1..Len(cands) |-> GroundTruth(TopOriginal, cands[i].orig)],
             origs |-> [i \in 1..Len(cands) |-> cands[i].orig],
             converted |-> conv]

\* get_examples_from_top_class: the batch built for top fragment c.  Example i
\* is represented by its rank i in the distance order of the candidates.
GetExamplesFromTopClass(s, c, cands) ==
    LET drop == GetCurDrop(s)
        bad == FirstBad(cands)
        done == IF bad = 0 THEN Len(cands) ELSE bad - 1
        conv == {CandidateClasses(cands[i]) : i \in 1..done}
    IN IF drop[2] >= GetCurVol(s)
       THEN [exc |-> "IndexError", examples |-> <<>>, labels |-> <<>>, origs |-> <<>>,
             converted |-> {}]
       ELSE IF bad # 0
       THEN [exc |-> "AssertionError", examples |-> <<>>, labels |-> <<>>, origs |-> <<>>,
             converted |-> conv]
       ELSE [exc |-> "", examples |-> ProximityRanks(Len(cands)),
             labels |-> [i \in 1..Len(cands) |-> GroundTruth(TopOriginal, cands[i].orig)],
             origs |-> [i \in 1..Len(cands) |-> cands[i].orig],
             converted |-> conv]

\* labels.count_nonzero()
CountNonzero(labels) == Cardinality({i \in 1..Len(labels) : labels[i] # 0})

\* list(labels).index(1), 0-based
IndexOfOne(labels) ==
    (CHOOSE i \in 1..Len(labels) : labels[i] = 1 /\ \A j \in 1..(i - 1) : labels[j] # 1) - 1
\* TruncateCandidates cutting before the first positive
TruncateBeforePositive(examples, labels) ==
    IF cfg.truncate_candidates /\ CountNonzero(labels) >= 1
    THEN LET true_i == IndexOfOne(labels)
         IN [examples |-> Prefix(examples, true_i), labels |-> Prefix(labels, true_i)]
    ELSE [examples |-> examples, labels |-> labels]

\* "crop examples": the batch cut after the first positive
TruncateCandidates(examples, labels) ==
    IF cfg.truncate_candidates /\ CountNonzero(labels) >= 1
    THEN LET true_i == IndexOfOne(labels)
         IN [examples |-> Prefix(examples, true_i + 1), labels |-> Prefix(labels, true_i + 1)]
    ELSE [examples |-> examples, labels |-> labels]
\* CandidateBatchNum taken after the top-fragment index moved on
CandidateBatchNumNext(s) ==
    ConcatDigits(ConcatDigits(s.cur_vol_i, s.cur_drop_start), s.cur_neurite_i + 1)

\* int(f'{self.cur_vol_i}{drop[0]}{self.cur_neurite_i}')
CandidateBatchNum(s) ==
    ConcatDigits(ConcatDigits(s.cur_vol_i, s.cur_drop_start), s.cur_neurite_i)

\* load_next_candidate_batch, entering a new gap, after the cursor moved:
\* the gap volume is relabeled and its top fragments are listed
RelabelGap(s1, top) ==
    IF s1.exc # "" THEN s1
    ELSE IF ~CurVolOk(s1) THEN Raise(s1, "IndexError")
    ELSE IF s1.cur_drop_start - 1 >= GetCurVol(s1) THEN Raise(s1, "IndexError")
    ELSE [s1 EXCEPT !.top_neurites = top.shuffled,
                    !.top_slice = top.unique,
                    !.cur_neurite_i = 0,
                    !.vol_relabeled = <<s1.cur_vol_i, s1.cur_drop_start>>,
                    !.gaps = Append(@, <<s1.cur_vol_i, s1.cur_drop_start>>)]

\* the first half of load_next_candidate_batch: entering a new gap
EnterGap(s, rnd_drop, rnd_vol, top) ==
    The({RelabelGap(s1, top) :
            s1 \in {IF Len(s.top_neurites) > 0 \/ cfg.randomize
                    THEN IncrementVolAndDrop(s, rnd_drop, rnd_vol)
                    ELSE s}})
\* InstallBatch taking its statistics after the cut
InstallBatchCountingCut(s1, got) ==
    IF got.exc # ""
    THEN [s1 EXCEPT !.exc = got.exc]
    ELSE The({[s1 EXCEPT
                 !.no_true = IF CountNonzero(cut.labels) = 0 THEN @ + 1 ELSE @,
                 !.multi_true = IF CountNonzero(cut.labels) > 1 THEN @ + 1 ELSE @,
                 !.num_true = @ + CountNonzero(cut.labels),
                 !.total_examples = @ + Len(cut.examples),
                 !.cur_neurite_i = @ + 1,
                 !.test_iteration_batch =
                     [examples |-> cut.examples,
                      labels |-> IF cfg.add_batch_id
                                 THEN [i \in 1..Len(cut.labels) |->
                                          <<cut.labels[i], CandidateBatchNum(s1)>>]
                                 ELSE cut.labels],
                 !.test_iteration_len = Len(cut.examples),
                 !.test_iteration_i = 0] :
              cut \in {TruncateCandidates(got.examples, got.labels)}})

\* InstallBatch taking all its statistics before the cut
InstallBatchCountingFull(s1, got) ==
    IF got.exc # ""
    THEN [s1 EXCEPT !.exc = got.exc]
    ELSE The({[s1 EXCEPT
                 !.no_true = IF CountNonzero(got.labels) = 0 THEN @ + 1 ELSE @,
                 !.multi_true = IF CountNonzero(got.labels) > 1 THEN @ + 1 ELSE @,
                 !.num_true = @ + CountNonzero(got.labels),
                 !.total_examples = @ + Len(got.examples),
                 !.cur_neurite_i = @ + 1,
                 !.test_iteration_batch =
                     [examples |-> cut.examples,
                      labels |-> IF cfg.add_batch_id
                                 THEN [i \in 1..Len(cut.labels) |->
                                          <<cut.labels[i], CandidateBatchNum(s1)>>]
                                 ELSE cut.labels],
                 !.test_iteration_len = Len(cut.examples),
                 !.test_iteration_i = 0] :
              cut \in {TruncateCandidates(got.examples, got.labels)}})

\* the end of load_next_candidate_batch: statistics, truncation, batch id and
\* the new current batch
InstallBatch(s1, got) ==
    IF got.exc # ""
    THEN [s1 EXCEPT !.exc = got.exc]
    ELSE The({[s1 EXCEPT
                 !.no_true = IF CountNonzero(got.labels) = 0 THEN @ + 1 ELSE @,
                 !.multi_true = IF CountNonzero(got.labels) > 1 THEN @ + 1 ELSE @,
                 !.num_true = @ + CountNonzero(cut.labels),
                 !.total_examples = @ + Len(cut.examples),
                 !.cur_neurite_i = @ + 1,
                 !.test_iteration_batch =
                     [examples |-> cut.examples,
                      labels |-> IF cfg.add_batch_id
                                 THEN [i \in 1..Len(cut.labels) |->
                                          <<cut.labels[i], CandidateBatchNum(s1)>>]
                                 ELSE cut.labels],
                 !.test_iteration_len = Len(cut.examples),
                 !.test_iteration_i = 0] :
              cut \in {TruncateCandidates(got.examples, got.labels)}})

\* history of the batches get_examples_from_top_class returned
RecordBatch(s2, got) ==
    IF got.exc # "" THEN s2
    ELSE [s2 EXCEPT
            !.full_labels = got.labels,
            !.full_origs = got.origs,
            !.loads = @ + 1,
            !.h_no_true = IF 1 \notin Range(got.labels) THEN @ + 1 ELSE @,
            !.h_multi_true =
                IF \E i, j \in 1..Len(got.labels) :
                       i # j /\ got.labels[i] = 1 /\ got.labels[j] = 1
                THEN @ + 1 ELSE @]

\* load_next_candidate_batch once the gap state is current: the batch of the
\* next top fragment
SynthesizeBatch(s1, cands) ==
    IF s1.exc # "" THEN s1
    ELSE IF s1.cur_neurite_i >= Len(s1.top_neurites) THEN Raise(s1, "IndexError")
    ELSE The({RecordBatch(InstallBatch([s1 EXCEPT !.converted = @ \cup got.converted], got),
                              got) :
                 got \in {GetExamplesFromTopClass(s1, s1.top_neurites[s1.cur_neurite_i + 1],
                                                  cands)}})

LoadNextCandidateBatch(s, rnd_drop, rnd_vol, top, cands) ==
    The({SynthesizeBatch(s1, cands) :
            s1 \in {IF s.cur_neurite_i >= Len(s.top_neurites)
                    THEN EnterGap(s, rnd_drop, rnd_vol, top)
                    ELSE s}})

\* get_next after the batch is loaded: the whole batch
ReturnBatch(s1) ==
    IF s1.exc # "" THEN s1
    ELSE [s1 EXCEPT !.out = [x |-> s1.test_iteration_batch.examples,
                             y |-> s1.test_iteration_batch.labels]]
\* ReturnExample reading the batch from its far end
ReturnExampleFromEnd(s1) ==
    IF s1.exc # "" THEN s1
    ELSE IF s1.test_iteration_i >= Len(s1.test_iteration_batch.examples)
    THEN Raise(s1, "IndexError")
    ELSE [s1 EXCEPT
            !.out = [x |-> s1.test_iteration_batch.examples[
                              Len(s1.test_iteration_batch.examples) - s1.test_iteration_i],
                     y |-> s1.test_iteration_batch.labels[
                              Len(s1.test_iteration_batch.labels) - s1.test_iteration_i]],
            !.test_iteration_i = @ + 1]

\* ReturnExample leaving the read position where it was
ReturnExampleAgain(s1) ==
    IF s1.exc # "" THEN s1
    ELSE IF s1.test_iteration_i >= Len(s1.test_iteration_batch.examples)
    THEN Raise(s1, "IndexError")
    ELSE [s1 EXCEPT
            !.out = [x |-> s1.test_iteration_batch.examples[s1.test_iteration_i + 1],
                     y |-> s1.test_iteration_batch.labels[s1.test_iteration_i + 1]]]

\* get_next after the batch is loaded: the example at the read position
ReturnExample(s1) ==
    IF s1.exc # "" THEN s1
    ELSE IF s1.test_iteration_i >= Len(s1.test_iteration_batch.examples)
    THEN Raise(s1, "IndexError")
    ELSE [s1 EXCEPT
            !.out = [x |-> s1.test_iteration_batch.examples[s1.test_iteration_i + 1],
                     y |-> s1.test_iteration_batch.labels[s1.test_iteration_i + 1]],
            !.test_iteration_i = @ + 1]

\* get_next
GetNext(s, rnd_drop, rnd_vol, top, cands) ==
    IF cfg.return_candidate_batch
    THEN The({ReturnBatch(s1) :
                 s1 \in {LoadNextCandidateBatch(s, rnd_drop, rnd_vol, top, cands)}})
    ELSE The({ReturnExample(s1) :
                 s1 \in {IF s.test_iteration_i >= s.test_iteration_len
                         THEN LoadNextCandidateBatch(s, rnd_drop, rnd_vol, top, cands)
                         ELSE s}})

\* the first lines of build_generator, run when the generator is first resumed
StartGenerator(s, w) ==
    LET s1 == [s EXCEPT !.drop_start_worker_range = s.iter_range,
                        !.worker_id = IF s.iter_range # NoRange THEN w ELSE @]
    IN IF ~CurVolOk(s1) THEN Raise(s1, "IndexError")
       ELSE [s1 EXCEPT !.cur_drop_start = GetDropStartRange(s1)[1]]

\* build_generator's loop: what the generator does with the outcome of get_next
YieldOrReturn(s1) ==
    IF s1.exc = "" THEN [s1 EXCEPT !.gen_pc = "running"]
    ELSE IF s1.exc = "StopIteration" THEN [s1 EXCEPT !.gen_pc = "done", !.exc = ""]
    ELSE [s1 EXCEPT !.gen_pc = "raised", !.err = s1.exc, !.exc = ""]

\* one resumption of the generator of build_generator: up to the next yield,
\* to its return on StopIteration, or to the exception that leaves it;
\* s0 is the instance after the generator's first lines
BuildGenerator(s0, rnd_drop, rnd_vol, top, cands) ==
    The({YieldOrReturn(s1) :
            s1 \in {IF s0.exc # "" THEN s0
                    ELSE GetNext(s0, rnd_drop, rnd_vol, top, cands)}})
\* WorkerRange taking one gap start more than its share
WorkerRangeOverlapping(worker_id) ==
    LET start == cfg.context_slices
        end == vols[1] - cfg.num_slices - cfg.context_slices - 1
        per_worker == CeilDiv(end - start, cfg.num_workers)
        iter_start == start + worker_id * per_worker
        iter_end == Min(iter_start + per_worker + 1, end)
    IN <<iter_start, iter_end>>

\* the (iter_start, iter_end) that __iter__ computes for worker worker_id
WorkerRange(worker_id) ==
    LET start == cfg.context_slices
        end == vols[1] - cfg.num_slices - cfg.context_slices - 1
        per_worker == CeilDiv(end - start, cfg.num_workers)
        iter_start == start + worker_id * per_worker
        iter_end == Min(iter_start + per_worker, end)
    IN <<iter_start, iter_end>>

\* SliceDataset.__iter__ in process w (cfg.num_workers = 0: no worker_info)
IterCall(s, w) ==
    IF cfg.num_workers = 0
    THEN [s EXCEPT !.gen_pc = "created", !.iter_range = NoRange]
    ELSE LET r == WorkerRange(w)
         IN IF r[1] >= r[2]
            THEN [s EXCEPT !.gen_pc = "done"]        \* iter(()): nothing to yield
            ELSE [s EXCEPT !.gen_pc = "created", !.iter_range = r]


(***************************************************************************)
(* What the sequencer reads from a volume at each step.                    *)
(***************************************************************************)

\* np.unique of the relabeled slice above a gap: ascending, never empty
UniqueSlices == {SortedSeq(S) : S \in (SUBSET (0..MaxTop)) \ {{}}}

\* np.random.shuffle(top_neurites)
Shuffled(top) == Orderings(Range(top))

\* one reconnection candidate: the original identifier label_map gives its
\* bottom fragment, and the number of connected components cc3d finds in its
\* cropped sub-volume
Candidates == [orig : 1..MaxOriginal, ncomp : 1..3]

\* the candidates of one top fragment, nearest first; those after the first
\* one that fails the sanity check are never looked at
CandidateLists ==
    {q \in SeqsUpTo(Candidates, MaxCand) : \A i \in 1..(Len(q) - 1) : q[i].ncomp = 2}

\* the instance as get_next finds it when the generator is resumed
Resumed(s, w) == IF s.gen_pc = "created" THEN StartGenerator(s, w) ELSE s

WillLoad(s) == cfg.return_candidate_batch \/ s.test_iteration_i >= s.test_iteration_len

WillEnter(s) == WillLoad(s) /\ s.cur_neurite_i >= Len(s.top_neurites)

\* random.randint(range_start, range_stop-1)
RandomDrops(s) ==
    IF cfg.randomize /\ WillEnter(s) /\ CurVolOk(s)
          /\ GetDropStartRange(s)[1] <= GetDropStartRange(s)[2] - 1
    THEN GetDropStartRange(s)[1]..(GetDropStartRange(s)[2] - 1)
    ELSE {0}

\* random.randint(0, len(self.vols)-1)
RandomVols(s) == IF cfg.randomize /\ WillEnter(s) THEN 0..(Len(vols) - 1) ELSE {0}

(***************************************************************************)
(* NeuriteDataset: the single-pair example builder.                        *)
(*                                                                         *)
(* Labels of a volume: 0 is background, SeedLabel is the seed class c of   *)
(* the call, OtherLabel stands for any other neurite.                      *)
(***************************************************************************)
SeedLabel == 1
OtherLabel == 2

\* "number of slices that must be left on top after droping slices"
Margin == 1

NoNeuriteDataset == [pc |-> "off"]

NoAttempt ==
    [label |-> 0, num_slices |-> 0, zmin |-> 0, zmax |-> 0, drop_start |-> 0,
     drop_end |-> 0, top_frags |-> 0, border |-> {}, vol |-> "", all_classes |-> {}]

\* NeuriteDataset.__init__ with n_classes admitted seed classes, all in one
\* volume of depth sz
NewNeuriteDataset(sz, num_slices, context_slices, retry, n_classes, epoch_multplier) ==
    [ pc |-> "idle",                  \* idle, running, done, raised
      err |-> "",
      sz |-> sz,
      num_slices |-> num_slices,      \* [low, high]
      context_slices |-> context_slices,
      retry |-> retry,
      true_length |-> n_classes * 2,
      effective_length |-> n_classes * 2 * epoch_multplier,
      index |-> 0,                    \* argument of the running get_example
      depth |-> 0,                    \* get_example frames below the running one
      label |-> 0,                    \* label of the returned example
      requested |-> 0,                \* history: the index given to __getitem__
      attempt |-> NoAttempt,          \* history: the last get_volumetric_example
      converted |-> {} ]              \* history: value sets that reached conversion

\* get_vol_class_label_from_index: "label based on even or odd"
LabelFromIndex(n, index) == IF ((index % n.true_length) % 2) = 0 THEN 1 ELSE 0

ClassFromIndex(n, index) == (index % n.true_length) \div 2

\* ZMaxRange without the margin of positive examples
ZMaxRangeAnyLabel(label, zmax, num_slices) == zmax + 1

\* upper end of random.randint(zmin+margin, z_max_range)
ZMaxRange(label, zmax, num_slices) ==
    IF label = 1 THEN zmax - Margin - num_slices + 1 ELSE zmax + 1

\* crop_where + cc3d.connected_components + np.unique of the stitched pair:
\* the top and the bottom fragment are one component each; they are one
\* component together only if no gap slice separates them, they touch and
\* they carry the same relabeled id.  Background survives the crop when a gap
\* slice exists or the bounding box holds an empty voxel.
FinalClasses(num_slices, top_id, bot_id, touching, background) ==
    LET merged == num_slices = 0 /\ touching /\ top_id = bot_id
        ncomp == IF merged THEN 1 ELSE 2
    IN (IF num_slices >= 1 \/ background THEN {0} ELSE {}) \cup (1..ncomp)

\* get_volumetric_example for seed class SeedLabel.  g holds what the call
\* reads from the volume and the random choices it makes:
\*   zmin, zmax       first and last slice holding the seed
\*   drop_start       random.randint(zmin+margin, z_max_range)
\*   top_frags        number of relabeled seed fragments on the top border slice
\*   top_id, bot_id   the relabeled ids picked by random.choice
\*   border           the labels inside the radius mask on slice drop_end
\*   bot_c            random.choice(mismatch_classes)
\*   touching, background   geometry of the stitched volume
GetVolumetricExample(n, label, num_slices, g) ==
    LET top_c == SeedLabel
        drop_start == g.drop_start
        drop_end == Min(drop_start + num_slices, n.sz - 1)
        mismatch_classes == SortedSeq(g.border)
        others == g.border \ {0, top_c}
        bot_c == IF label = 1 THEN top_c ELSE g.bot_c
        at == [label |-> label, num_slices |-> num_slices, zmin |-> g.zmin, zmax |-> g.zmax,
               drop_start |-> drop_start, drop_end |-> drop_end, top_frags |-> g.top_frags,
               border |-> g.border, vol |-> "", all_classes |-> {}]
    IN IF ~(g.zmax - g.zmin >= num_slices + 2)
       THEN [exc |-> "AssertionError",
             attempt |-> [at EXCEPT !.drop_start = 0, !.drop_end = 0, !.top_frags = 0,
                                    !.border = {}]]
       ELSE IF g.top_frags = 0
       THEN [exc |-> "IndexError", attempt |-> at]         \* random.choice([])
       ELSE IF label # 1 /\ mismatch_classes[1] # 0
       THEN [exc |-> "AssertionError", attempt |-> at]
       ELSE IF label # 1 /\ others = {}
       THEN [exc |-> "", attempt |-> [at EXCEPT !.vol = "None"]]
       ELSE IF bot_c \notin g.border
       THEN [exc |-> "", attempt |-> [at EXCEPT !.vol = "None"]]
       ELSE [exc |-> "",
             attempt |-> [at EXCEPT !.vol = "final_vol",
                                    !.all_classes = FinalClasses(num_slices, g.top_id, g.bot_id,
                                                                 g.touching, g.background)]]

\* get_example after get_volumetric_example returned or raised
FinishExample(n, label, got, rnd_i) ==
    IF got.exc # ""
    THEN [n EXCEPT !.attempt = got.attempt, !.pc = "raised", !.err = got.exc]
    ELSE IF n.retry /\ got.attempt.vol = "None"
    THEN IF n.depth + 1 >= RecursionLimit
         THEN [n EXCEPT !.attempt = got.attempt, !.pc = "raised", !.err = "RecursionError"]
         ELSE [n EXCEPT !.attempt = got.attempt, !.index = rnd_i, !.depth = @ + 1]
    ELSE IF got.attempt.vol = "None"
    THEN [n EXCEPT !.attempt = got.attempt, !.pc = "raised",
                   !.err = "TypeError"]                          \* crop_where(None, ...)
    ELSE IF ~ThreeClasses(got.attempt.all_classes)
    THEN [n EXCEPT !.attempt = got.attempt, !.pc = "raised", !.err = "AssertionError"]
    ELSE [n EXCEPT !.attempt = got.attempt, !.pc = "done", !.label = label,
                   !.converted = @ \cup {got.attempt.all_classes}]

\* one activation of get_example(n.index): it returns, raises, or calls
\* itself with the random index rnd_i
GetExample(n, num_slices, g, rnd_i) ==
    IF n.num_slices[1] > n.num_slices[2]
    THEN [n EXCEPT !.pc = "raised", !.err = "ValueError"]        \* random.randint(a, b), a > b
    ELSE The({FinishExample(n, LabelFromIndex(n, n.index), got, rnd_i) :
                 got \in {GetVolumetricExample(n, LabelFromIndex(n, n.index), num_slices, g)}})

(***************************************************************************)
(* What the pair builder reads from a volume and draws at random.          *)
(***************************************************************************)

\* z-extents of a seed class the constructor admits: it occurs on at least
\* num_slices[1] + 2 distinct slices of the volume
SeedExtents(n) ==
    {e \in (0..(n.sz - 1)) \X (0..(n.sz - 1)) : e[2] - e[1] + 1 >= n.num_slices[2] + 2}

\* random.randint(self.num_slices[0], self.num_slices[1]); it raises on an
\* empty range, whatever is drawn
NumSlicesDraws(n) ==
    IF n.num_slices[1] <= n.num_slices[2] THEN n.num_slices[1]..n.num_slices[2]
    ELSE {n.num_slices[1]}

\* the drop starts random.randint can return (any, when the call raises before)
DropStarts(label, num_slices, e) ==
    IF e[2] - e[1] >= num_slices + 2
    THEN (e[1] + Margin)..ZMaxRange(label, e[2], num_slices)
    ELSE {0}

\* relabeled seed fragments on the top border slice drop_start - 1: the seed is
\* on its first and on its last slice, and may miss a slice between them
TopFragCounts(e, drop_start) ==
    IF drop_start - 1 \in {e[1], e[2]} THEN 1..MaxFrag ELSE 0..MaxFrag

\* labels inside the radius mask on slice drop_end (never empty: the mask
\* holds its centre); the seed is on no slice outside its z-extent
Borders(n, e, drop_start, num_slices) ==
    LET drop_end == Min(drop_start + num_slices, n.sz - 1)
        labels == IF drop_end \in e[1]..e[2] THEN {0, SeedLabel, OtherLabel}
                  ELSE {0, OtherLabel}
    IN (SUBSET labels) \ {{}}

\* the relabeled ids random.choice can return among frags fragments; they
\* decide nothing when the two fragments do not touch
RelabeledIds(touching, frags) ==
    IF ~touching \/ frags = 0 THEN {1} ELSE 1..frags

\* random.randint(0, self.effective_length), drawn only on a retry
RandomIndices(n) == IF n.retry THEN 0..n.effective_length ELSE {0}

\* whether the two fragments touch, and whether the bounding box holds an
\* empty voxel: fragments that do not touch leave one between them, and a gap
\* slice separates them
Contacts(num_slices) ==
    IF num_slices >= 1 THEN {<<FALSE, TRUE>>}
    ELSE {<<TRUE, TRUE>>, <<TRUE, FALSE>>, <<FALSE, TRUE>>}

(***************************************************************************)
(* Actions of the pair builder.                                            *)
(***************************************************************************)

\* dataset[index]: __getitem__ starts get_example(index)
GetItem ==
    /\ nd.pc = "idle"
    /\ \E index \in 0..(nd.effective_length - 1) :
          nd' = [nd EXCEPT !.pc = "running", !.index = index, !.requested = index]
    /\ UNCHANGED <<vols, cfg, sd>>

\* the running get_example activation runs to its return, raise or recursive call
Attempt ==
    /\ nd.pc = "running"
    /\ \E num_slices \in NumSlicesDraws(nd) :
       \E e \in SeedExtents(nd) :
       \E drop_start \in DropStarts(LabelFromIndex(nd, nd.index), num_slices, e) :
       \E top_frags \in TopFragCounts(e, drop_start) :
       \E border \in Borders(nd, e, drop_start, num_slices) :
       \E contact \in Contacts(num_slices) :
       \E top_id \in RelabeledIds(contact[1], top_frags) :
       \E bot_id \in RelabeledIds(contact[1], MaxFrag) :
       \E rnd_i \in RandomIndices(nd) :
          nd' = GetExample(nd, num_slices,
                           [zmin |-> e[1], zmax |-> e[2], drop_start |-> drop_start,
                            top_frags |-> top_frags, top_id |-> top_id, bot_id |-> bot_id,
                            border |-> border,
                            bot_c |-> IF OtherLabel \in border THEN OtherLabel ELSE SeedLabel,
                            touching |-> contact[1], background |-> contact[2]],
                           rnd_i)
    /\ UNCHANGED <<vols, cfg, sd>>

PairNext == GetItem \/ Attempt

(***************************************************************************)
(* Actions of the sequencer.                                               *)
(***************************************************************************)

\* process w calls iter(dataset)
Iter(w) ==
    /\ sd[w].gen_pc = "none"
    /\ sd' = [sd EXCEPT ![w] = IterCall(sd[w], w)]
    /\ UNCHANGED <<vols, cfg, nd>>

\* process w calls next() on its generator, over volumes whose top border
\* slices are among slices and whose candidates are among lists
GenNextOver(w, slices, lists) ==
    /\ sd[w].gen_pc \in {"created", "running"}
    /\ \E s \in {Resumed(sd[w], w)} :
          /\ s.exc = "" /\ cfg.randomize /\ WillLoad(s) => s.loads < MaxLoads
          /\ \E uniq \in IF s.exc = "" /\ WillEnter(s) THEN slices ELSE {<<0>>} :
             \E top \in {[unique |-> uniq, shuffled |-> o] : o \in Shuffled(TopNeurites(uniq))} :
             \E cands \in IF s.exc = "" /\ WillLoad(s) THEN lists ELSE {<<>>} :
             \E rnd_drop \in RandomDrops(s) :
             \E rnd_vol \in RandomVols(s) :
                sd' = [sd EXCEPT ![w] = BuildGenerator(s, rnd_drop, rnd_vol, top, cands)]
    /\ UNCHANGED <<vols, cfg, nd>>

GenNext(w) == GenNextOver(w, UniqueSlices, CandidateLists)

SliceNext == \E w \in DOMAIN sd : Iter(w) \/ GenNext(w)

\* the depth the volume source guarantees: num_slices + 2*context_slices + 1
MinDepth(c) == c.num_slices + 2 * c.context_slices + 1

SliceConfigs ==
    [num_slices : 1..MaxSlices, context_slices : 1..MaxContext,
     add_batch_id : BOOLEAN, truncate_candidates : BOOLEAN,
     return_candidate_batch : BOOLEAN, randomize : BOOLEAN, num_workers : {0}]

InitSlice ==
    /\ cfg \in SliceConfigs
    /\ \E n \in 1..MaxVols :
          vols \in [1..n -> MinDepth(cfg)..(MinDepth(cfg) + MaxExtra)]
    /\ sd = [w \in {0} |-> NewSliceDataset]
    /\ nd = NoNeuriteDataset

NoSliceDataset == [num_slices |-> 0, context_slices |-> 0, add_batch_id |-> FALSE,
                   truncate_candidates |-> FALSE, return_candidate_batch |-> FALSE,
                   randomize |-> FALSE, num_workers |-> 0]

InitPair ==
    /\ cfg = NoSliceDataset
    /\ vols = <<>>
    /\ sd = <<>>
    /\ \E sz \in (MaxPairSlices + 3)..MaxPairDepth :
       \E low \in 0..MaxPairSlices, high \in 0..MaxPairSlices :
       \E context_slices \in 1..MaxContext :
       \E retry \in BOOLEAN :
       \E n_classes \in 1..MaxClasses :
          nd = NewNeuriteDataset(sz, <<low, high>>, context_slices, retry, n_classes, 1)

Init == InitPair \/ InitSlice

Next == PairNext \/ SliceNext

\* both modes of the pipeline
Spec == Init /\ [][Next]_vars

\* the gap sequencer in one process
SpecSlice == InitSlice /\ [][SliceNext]_vars

\* the single-pair builder
SpecPair == InitPair /\ [][PairNext]_vars

(***************************************************************************)
(* The sequencer under a DataLoader with worker processes: every worker    *)
(* holds its own copy of the dataset, built as generate_dataset builds it, *)
(* over volumes of one depth in which every gap has one top fragment with  *)
(* one positive candidate.                                                 *)
(***************************************************************************)
WorkerSlices == {<<0, 1>>}

WorkerLists == {<<[orig |-> TopOriginal, ncomp |-> 2]>>}

\* WorkerGenNext over one instance shared by the workers: the gap start of
\* the worker that moved is the gap start of all
WorkerGenNextShared(w) ==
    /\ sd[w].gen_pc \in {"created", "running"}
    /\ \E s \in {Resumed(sd[w], w)} :
       \E top \in {[unique |-> uniq, shuffled |-> TopNeurites(uniq)] : uniq \in WorkerSlices} :
       \E cands \in WorkerLists :
       \E new \in {BuildGenerator(s, 0, 0, top, cands)} :
          sd' = [v \in DOMAIN sd |->
                    IF v = w THEN new
                    ELSE [sd[v] EXCEPT !.cur_drop_start = new.cur_drop_start]]
    /\ UNCHANGED <<vols, cfg, nd>>

\* process w calls next() on its generator
WorkerGenNext(w) == GenNextOver(w, WorkerSlices, WorkerLists)

WorkersNext == \E w \in DOMAIN sd : Iter(w) \/ WorkerGenNext(w)

WorkerConfigs ==
    [num_slices : 1..MaxSlices, context_slices : 1..MaxContext,
     add_batch_id : {TRUE}, truncate_candidates : {TRUE},
     return_candidate_batch : {FALSE}, randomize : {FALSE}, num_workers : 1..MaxWorkers]

InitWorkers ==
    /\ cfg \in WorkerConfigs
    /\ \E n \in 1..MaxVols :
       \E depth \in MinDepth(cfg)..(MinDepth(cfg) + MaxWorkerExtra) :
          vols = [i \in 1..n |-> depth]
    /\ sd = [w \in 0..(cfg.num_workers - 1) |-> NewSliceDataset]
    /\ nd = NoNeuriteDataset

SpecWorkers == InitWorkers /\ [][WorkersNext]_vars

(***************************************************************************)
(* Properties of the worker partition.                                     *)
(***************************************************************************)

\* the gap starts the single-process walk visits in one volume
SingleProcessStarts ==
    LET r == GetDropStartRange(NewSliceDataset) IN r[1]..(r[2] - 1)

\* the gap starts __iter__ assigned to worker w
AssignedStarts(w) ==
    IF sd[w].iter_range = NoRange THEN {}
    ELSE sd[w].iter_range[1]..(sd[w].iter_range[2] - 1)

\* the gap starts worker w has entered
EnteredStarts(w) == {g[2] : g \in Range(sd[w].gaps)}

AllIterated == \A w \in DOMAIN sd : sd[w].gen_pc # "none"

\* C1: once every worker has called __iter__, the union of the workers' gap-start
\* ranges is the set of gap starts the single-process walk visits.
C1_PartitionCoverage ==
    AllIterated => UNION {AssignedStarts(w) : w \in DOMAIN sd} = SingleProcessStarts

\* C2: the gap-start ranges of two workers never overlap, every range lies
\* inside the valid range, and a worker enters only gap starts of its own
\* range, so no (volume, gap start) pair is entered by two workers.
C2_PartitionDisjoint ==
    \A w1 \in DOMAIN sd :
       /\ AssignedStarts(w1) \subseteq SingleProcessStarts
       /\ EnteredStarts(w1) \subseteq AssignedStarts(w1)
       /\ \A w2 \in DOMAIN sd \ {w1} :
             /\ AssignedStarts(w1) \cap AssignedStarts(w2) = {}
             /\ Range(sd[w1].gaps) \cap Range(sd[w2].gaps) = {}

\* two workers have each entered a gap of their own range
C2_Witness ==
    \E w1 \in DOMAIN sd : \E w2 \in DOMAIN sd \ {w1} :
       sd[w1].gaps # <<>> /\ sd[w2].gaps # <<>>

(***************************************************************************)
(* Properties of the single-process walk.                                  *)
(***************************************************************************)

\* the gaps of volume i (counted from 1) in walk order
VolumeWalk(i) ==
    [k \in 1..(vols[i] - cfg.num_slices - 2 * cfg.context_slices) |->
        <<i - 1, cfg.context_slices + k - 1>>]

RECURSIVE WalkUpTo(_)
WalkUpTo(n) == IF n = 0 THEN <<>> ELSE WalkUpTo(n - 1) \o VolumeWalk(n)

\* every volume in list order, every gap start of it in ascending order
ExpectedWalk == WalkUpTo(Len(vols))

IsPrefix(p, q) == Len(p) <= Len(q) /\ p = SubSeq(q, 1, Len(p))

\* C3: in non-randomized single-process mode the gaps entered so far are the
\* first gaps of the enumeration "volumes in list order, gap starts from
\* range_start to range_stop - 1 ascending", and all of it once the walk is over.
C3_WalkOrder ==
    \A w \in DOMAIN sd :
       ~cfg.randomize /\ cfg.num_workers = 0 =>
          /\ IsPrefix(sd[w].gaps, ExpectedWalk)
          /\ sd[w].gen_pc = "done" => sd[w].gaps = ExpectedWalk

\* a walk over two volumes that went through all their gaps
C3_Witness ==
    \E w \in DOMAIN sd :
       /\ ~cfg.randomize /\ Len(vols) = 2
       /\ sd[w].gen_pc = "done"
       /\ Len(sd[w].gaps) >= 3
       /\ sd[w].gaps = ExpectedWalk

\* C4: in non-randomized mode the stream of a finite list of volumes ends by
\* exhaustion, after the last gap of the last volume, and never by an error.
C4_Exhaustion ==
    \A w \in DOMAIN sd :
       ~cfg.randomize =>
          /\ sd[w].gen_pc # "raised"
          /\ sd[w].gen_pc = "done" => sd[w].gaps = ExpectedWalk

(***************************************************************************)
(* Properties of the sanity check and of the pair builder's failures.      *)
(***************************************************************************)

\* the distinct values {0, a, b}, a # b, both nonzero
IsThreeValued(classes) == 0 \in classes /\ Cardinality(classes) = 3

\* C5: every sub-volume that reached point-cloud conversion, in the sequencer
\* (convert_volumetric_to_final) and in the pair builder (get_example), has
\* exactly the distinct values {0, a, b} with a # b, both nonzero.
C5_ThreeValues ==
    /\ \A w \in DOMAIN sd : \A classes \in sd[w].converted : IsThreeValued(classes)
    /\ nd.pc # "off" => \A classes \in nd.converted : IsThreeValued(classes)

\* a pair stitched without a gap slice between its fragments was converted
C5_Witness ==
    /\ nd.pc = "done"
    /\ nd.attempt.num_slices = 0
    /\ nd.attempt.all_classes \in nd.converted

\* C6: a sub-volume that does not have exactly 3 distinct values after crop
\* and relabeling is not raised as an exception: get_example does not end by
\* one, and the sequencer's stream does not end by one.
C6_RecoverableGeometry ==
    /\ nd.pc # "off" /\ nd.attempt.vol = "final_vol"
          /\ ~IsThreeValued(nd.attempt.all_classes) => nd.pc # "raised"
    /\ \A w \in DOMAIN sd : ~(sd[w].gen_pc = "raised" /\ sd[w].err = "AssertionError")

\* the last get_volumetric_example got as far as the slice below the gap
ReadBorder == nd.pc # "off" /\ nd.attempt.top_frags >= 1 /\ nd.attempt.border # {}

\* C7: get_volumetric_example returns None, without raising, whenever a
\* negative example is requested and no label other than background and the
\* seed lies inside the radius mask below the gap, and whenever no relabeled
\* bottom fragment lies inside the mask.
C7_NoneWithoutCandidate ==
    ReadBorder =>
       /\ nd.attempt.label = 0 /\ nd.attempt.border \ {0, SeedLabel} = {}
             => nd.attempt.vol = "None"
       /\ nd.attempt.label = 1 /\ SeedLabel \notin nd.attempt.border
             => nd.attempt.vol = "None"

\* C8: get_example gives up after a bounded number of retries with a result
\* of its own; it never recurses until the interpreter stops it.
C8_BoundedRetry == nd.pc = "raised" => nd.err # "RecursionError"

(***************************************************************************)
(* Properties of a loaded candidate batch.                                 *)
(***************************************************************************)

\* the labels of the current batch without their batch ids
BatchLabels(s) ==
    IF cfg.add_batch_id
    THEN [i \in 1..Len(s.test_iteration_batch.labels) |-> s.test_iteration_batch.labels[i][1]]
    ELSE s.test_iteration_batch.labels

\* labels is full cut after its first positive
IsCutAtFirstPositive(labels, full) ==
    /\ IsPrefix(labels, full)
    /\ Len(labels) >= 1
    /\ labels[Len(labels)] = 1
    /\ \A i \in 1..(Len(labels) - 1) : labels[i] = 0

\* C9: with truncate_candidates a batch holding a positive is its candidates
\* up to and including the first positive, so it has exactly one positive,
\* its last element; a batch without positive, and every batch without
\* truncate_candidates, is the full candidate list.
C9_Truncation ==
    \A w \in DOMAIN sd :
       LET s == sd[w]
           labels == BatchLabels(s)
           examples == s.test_iteration_batch.examples
       IN s.loads >= 1 =>
             /\ examples = [i \in 1..Len(labels) |-> i]
             /\ IF cfg.truncate_candidates /\ 1 \in Range(s.full_labels)
                THEN IsCutAtFirstPositive(labels, s.full_labels)
                ELSE labels = s.full_labels

\* a batch was cut short of a candidate behind its first positive
C9_Witness ==
    \E w \in DOMAIN sd :
       /\ cfg.truncate_candidates
       /\ sd[w].full_labels = <<1, 0>>
       /\ BatchLabels(sd[w]) = <<1>>

\* C10: no_true counts the loaded batches whose full label list has no
\* positive, multi_true those with more than one; a batch raises at most one
\* of the two, and neither kind stops the load.
C10_QualityCounters ==
    \A w \in DOMAIN sd :
       /\ sd[w].no_true = sd[w].h_no_true
       /\ sd[w].multi_true = sd[w].h_multi_true
       /\ sd[w].no_true + sd[w].multi_true <= sd[w].loads

\* batches of both kinds were loaded, the second kind under truncation
C10_Witness ==
    \E w \in DOMAIN sd :
       /\ cfg.truncate_candidates
       /\ sd[w].no_true >= 1
       /\ sd[w].multi_true >= 1

(***************************************************************************)
(* Properties of the statistics, labels, order and identifiers of a batch. *)
(***************************************************************************)

\* the candidates a load synthesized and did not put into the batch
DroppedByLoad(w) ==
    Len(sd'[w].full_labels) - (sd'[w].total_examples - sd[w].total_examples)

\* C11: every load that synthesizes candidates it does not emit raises a
\* statistics counter for them: no candidate is dropped with no_true and
\* multi_true unchanged and total_examples raised by the emitted ones only.
C11_NoSilentDrop ==
    [][\A w \in DOMAIN sd :
          sd'[w].loads = sd[w].loads + 1 /\ DroppedByLoad(w) > 0 =>
             \/ sd'[w].no_true > sd[w].no_true
             \/ sd'[w].multi_true > sd[w].multi_true]_vars

\* C12: the label of every candidate of a batch is 1 if and only if label_map
\* gives its bottom fragment the original identifier of the top fragment, in
\* the synthesized batch and in the batch kept for emission.
C12_GroundTruth ==
    \A w \in DOMAIN sd :
       sd[w].loads >= 1 =>
          /\ Len(sd[w].full_labels) = Len(sd[w].full_origs)
          /\ \A i \in 1..Len(sd[w].full_labels) :
                /\ sd[w].full_labels[i] \in {0, 1}
                /\ sd[w].full_labels[i] = 1 <=> sd[w].full_origs[i] = TopOriginal
          /\ \A i \in 1..Len(BatchLabels(sd[w])) :
                BatchLabels(sd[w])[i] = 1 <=> sd[w].full_origs[i] = TopOriginal

\* a batch with a negative candidate nearer than the positive one
C12_Witness ==
    \E w \in DOMAIN sd :
       /\ sd[w].full_origs = <<2, TopOriginal>>
       /\ BatchLabels(sd[w]) = <<0, 1>>

\* the label of item y as it is emitted
EmittedLabel(y) == IF cfg.add_batch_id THEN y[1] ELSE y

\* C13: the examples of a batch are in proximity order (ranks ascending from
\* the nearest), the i-th label belongs to the i-th example, also after
\* truncation, and one-at-a-time emission hands them out in that order.
C13_Ordering ==
    \A w \in DOMAIN sd :
       LET s == sd[w]
           batch == s.test_iteration_batch
       IN s.loads >= 1 =>
             /\ batch.examples = ProximityRanks(Len(batch.examples))
             /\ Len(batch.labels) = Len(batch.examples)
             /\ \A i \in 1..Len(batch.examples) :
                   BatchLabels(s)[i] = s.full_labels[batch.examples[i]]
             /\ s.gen_pc = "running" /\ ~cfg.return_candidate_batch =>
                   /\ s.test_iteration_i \in 1..Len(batch.examples)
                   /\ s.out.x = s.test_iteration_i
                   /\ EmittedLabel(s.out.y) = s.full_labels[s.test_iteration_i]
             /\ s.gen_pc = "running" /\ cfg.return_candidate_batch =>
                   s.out = [x |-> batch.examples, y |-> batch.labels]

\* the second example of a batch of two different labels was emitted
C13_Witness ==
    \E w \in DOMAIN sd :
       /\ ~cfg.return_candidate_batch
       /\ sd[w].gen_pc = "running"
       /\ sd[w].full_labels = <<0, 1>>
       /\ sd[w].test_iteration_i = 2
       /\ sd[w].out.x = 2

\* the identifier int(f'{volume}{gap start}{top-fragment index}') of the batch
\* of the top fragment last loaded
GroupIdInForce(s) ==
    ConcatDigits(ConcatDigits(s.gaps[Len(s.gaps)][1], s.gaps[Len(s.gaps)][2]),
                 s.cur_neurite_i - 1)

\* C14: with add_batch_id, whenever the generator has yielded, every example
\* of the current batch, and the item emitted from it, carries the identifier
\* made of the volume index, gap start and top-fragment index in force when
\* the batch was synthesized.
C14_SharedGroupId ==
    \A w \in DOMAIN sd :
       LET s == sd[w]
       IN cfg.add_batch_id /\ s.gen_pc = "running" =>
             /\ \A i \in 1..Len(s.test_iteration_batch.labels) :
                   s.test_iteration_batch.labels[i][2] = GroupIdInForce(s)
             /\ ~cfg.return_candidate_batch => s.out.y[2] = GroupIdInForce(s)

\* both examples of a batch of the second gap were emitted with its identifier
C14_Witness ==
    \E w \in DOMAIN sd :
       /\ cfg.add_batch_id /\ ~cfg.return_candidate_batch
       /\ sd[w].gen_pc = "running"
       /\ Len(sd[w].gaps) = 2
       /\ sd[w].test_iteration_i = 2
       /\ sd[w].out.y[2] = GroupIdInForce(sd[w])

(***************************************************************************)
(* Properties of the top fragments of a gap.                               *)
(***************************************************************************)

\* the gap state of s is current
GapEntered(s) == s.vol_relabeled # NoVolume

\* C17: the top fragments to visit in a gap are all the non-background
\* identifiers of the slice above the gap, whether or not that slice holds
\* a background voxel.
C17_TopEnumeration ==
    \A w \in DOMAIN sd :
       GapEntered(sd[w]) => Range(sd[w].top_neurites) = Range(sd[w].top_slice) \ {0}

\* C18: for a top fragment of the current gap with no candidate inside the
\* radius mask on the slice below the gap, get_examples_from_top_class
\* returns an empty example list and an empty label list and raises nothing;
\* the batch loaded from it is empty.
C18_IsolatedTop ==
    \A w \in DOMAIN sd :
       LET s == sd[w]
       IN /\ GapEntered(s) /\ s.gen_pc = "running" /\ GetCurDrop(s)[2] < GetCurVol(s) =>
                \A c \in Range(s.top_neurites) :
                   LET got == GetExamplesFromTopClass(s, c, <<>>)
                   IN got.exc = "" /\ got.examples = <<>> /\ got.labels = <<>>
          /\ s.loads >= 1 /\ s.full_origs = <<>> =>
                s.test_iteration_batch = NoBatch /\ s.test_iteration_len = 0

\* the batch of an isolated top fragment was loaded and returned whole
C18_Witness ==
    \E w \in DOMAIN sd :
       /\ cfg.return_candidate_batch
       /\ sd[w].gen_pc = "running"
       /\ sd[w].loads >= 1
       /\ sd[w].full_origs = <<>>
       /\ sd[w].out.x = <<>>

(***************************************************************************)
(* Properties of the configuration and of the gap.                         *)
(***************************************************************************)

\* the num_slices range of the pair builder is no low <= high pair
MalformedRange(n) == n.num_slices[1] > n.num_slices[2]

\* C19: a dataset with a malformed configuration does not outlive its
\* construction: no pair builder with a num_slices range that is not a
\* low <= high pair is ever asked for an example.
C19_FailFast ==
    nd.pc # "off" /\ MalformedRange(nd) => nd.pc = "idle" /\ nd.attempt = NoAttempt

\* the last get_volumetric_example passed its z-span check and drew a gap
GapDrawn(a) == a.zmax - a.zmin >= a.num_slices + 2

\* C20: every gap [drop_start, drop_end) used to build an example satisfies
\* drop_end > drop_start: the gap of the sequencer while its stream runs, and
\* the gap the pair builder draws for a range of at least one slice, for
\* positive and for negative labels.
C20_GapWellFormed ==
    /\ \A w \in DOMAIN sd :
          sd[w].gen_pc = "running" => GetCurDrop(sd[w])[2] > GetCurDrop(sd[w])[1]
    /\ nd.pc # "off" /\ GapDrawn(nd.attempt) /\ nd.attempt.num_slices >= 1 =>
          nd.attempt.drop_end > nd.attempt.drop_start

(***************************************************************************)
(* Conversion of a stitched sub-volume to the emitted point cloud.  An     *)
(* array is known by its shape <<rows, columns>>.  Here sd is the          *)
(* conversion SliceDataset.get_examples_from_top_class runs for one        *)
(* candidate and nd the one NeuriteDataset.get_example runs, both on a     *)
(* sub-volume with `points` boundary voxels and label set `classes`.       *)
(***************************************************************************)

MaxGridPoints == 5   \* boundary voxels of a sub-volume: 1..MaxGridPoints
MaxPoints == 3       \* num_points: 1..MaxPoints

\* one z, y, x coordinate per point
Coordinates == 3

\* convert_grid_to_pointcloud: one row of coordinates per nonzero voxel
ConvertGridToPointcloud(points) == <<points, Coordinates>>

\* random_sample_arr(pc, count, replace): count rows drawn from the rows of
\* pc; without replacement no more rows can be drawn than pc has
RandomSampleArr(pc, count, replace) ==
    IF ~replace /\ count > pc[1]
    THEN [exc |-> "ValueError", shape |-> pc]
    ELSE [exc |-> "", shape |-> <<count, pc[2]>>]

NeverReplace(have, need) == FALSE

\* num_points < self.num_points: sample with replacement
NotEnoughPoints(have, need) == have < need

\* convert_to_point_cloud of both datasets
ConvertToPointCloud(c, points) ==
    LET pc == ConvertGridToPointcloud(points)
    IN IF c.resample
       THEN RandomSampleArr(pc, c.num_points, NotEnoughPoints(pc[1], c.num_points))
       ELSE [exc |-> "", shape |-> pc]

\* Augmentor.transfrom moves the points and keeps their number
Transfrom(pc) == pc

KeepAxes(pc) == pc

\* np.swapaxes(pc_example, 0, 1)
SwapAxes(pc) == <<pc[2], pc[1]>>

NewConversion(points, classes) ==
    [pc |-> "grid", points |-> points, classes |-> classes,
     sampled |-> <<>>, shape |-> <<>>, exc |-> ""]

ConversionRaised(j, e) == [j EXCEPT !.pc = "raised", !.exc = e]

\* SliceDataset.convert_volumetric_to_final
ConvertVolumetricToFinal(c, j) ==
    IF ~ThreeClasses(j.classes)
    THEN ConversionRaised(j, "AssertionError")
    ELSE \* bound eagerly: one evaluation of the conversion
         The({IF got.exc # ""
              THEN ConversionRaised(j, got.exc)
              ELSE [j EXCEPT !.pc = "done", !.sampled = got.shape,
                             !.shape = SwapAxes(Transfrom(got.shape))] :
              got \in {ConvertToPointCloud(c, j.points)}})

\* SliceDataset.get_examples_from_top_class for one candidate: the batch tensor
\* torch.zeros((len(mismatch_classes), 3, self.num_points)), the conversion and
\* final_examples[i] = pc
SynthesizeExample(c, j) ==
    IF ~c.resample
    THEN ConversionRaised(j, "TypeError")
    ELSE The({IF got.pc = "done" /\ got.shape # <<Coordinates, c.num_points>>
              THEN ConversionRaised(got, "RuntimeError")
              ELSE got :
              got \in {ConvertVolumetricToFinal(c, j)}})

\* NeuriteDataset.get_example from its sanity check to its return
FinishPointCloud(c, j) ==
    IF ~ThreeClasses(j.classes)
    THEN ConversionRaised(j, "AssertionError")
    ELSE The({IF got.exc # ""
              THEN ConversionRaised(j, got.exc)
              ELSE [j EXCEPT !.pc = "done", !.sampled = got.shape,
                             !.shape = IF c.swapaxes
                                       THEN SwapAxes(Transfrom(got.shape))
                                       ELSE Transfrom(got.shape)] :
              got \in {ConvertToPointCloud(c, j.points)}})

SliceConvert ==
    /\ sd.pc = "grid"
    /\ sd' = SynthesizeExample(cfg, sd)
    /\ UNCHANGED <<vols, cfg, nd>>

PairConvert ==
    /\ nd.pc = "grid"
    /\ nd' = FinishPointCloud(cfg, nd)
    /\ UNCHANGED <<vols, cfg, sd>>

PointsNext == SliceConvert \/ PairConvert

\* num_points = None is resample = FALSE
PointConfigs ==
    [num_points : 1..MaxPoints, resample : BOOLEAN, swapaxes : BOOLEAN]

InitPoints ==
    /\ cfg \in PointConfigs
    /\ vols = <<>>
    /\ \E points \in 1..MaxGridPoints : \E ncomp \in 1..3 :
          /\ sd = NewConversion(points, 0..ncomp)
          /\ nd = NewConversion(points, 0..ncomp)

SpecPoints == InitPoints /\ [][PointsNext]_vars

(***************************************************************************)
(* Properties of the conversion.                                           *)
(***************************************************************************)

Converted(j) == j.pc # "grid" /\ ThreeClasses(j.classes)

C16_ExampleShape ==
    cfg.resample /\ Converted(sd) =>
       /\ sd.pc = "done"
       /\ sd.shape = <<Coordinates, cfg.num_points>>

\* an example with a number of points other than three has been synthesized
C16_Witness ==
    /\ sd.pc = "done"
    /\ cfg.num_points # Coordinates
    /\ sd.shape = <<Coordinates, cfg.num_points>>

\* C16 (as stated): every example of the many-candidate mode has shape
\* (num_points, 3), points along the first axis.
C16_PointsFirst ==
    sd.pc = "done" => sd.shape = <<cfg.num_points, Coordinates>>

(***************************************************************************)
(* Properties of the workers' cursors.                                     *)
(***************************************************************************)

\* the gaps worker w walks when it runs alone over the range __iter__ gave it:
\* every volume in list order, the gap starts of the range ascending
WorkerWalkUpTo(w, n) ==
    [k \in 1..(n * (sd[w].iter_range[2] - sd[w].iter_range[1])) |->
        <<(k - 1) \div (sd[w].iter_range[2] - sd[w].iter_range[1]),
          sd[w].iter_range[1] + ((k - 1) % (sd[w].iter_range[2] - sd[w].iter_range[1]))>>]

WorkerWalk(w) ==
    IF sd[w].iter_range = NoRange THEN <<>> ELSE WorkerWalkUpTo(w, Len(vols))

\* the cursor of a sequencer
Cursor(s) ==
    <<s.cur_vol_i, s.cur_drop_start, s.top_neurites, s.cur_neurite_i,
      s.test_iteration_batch, s.test_iteration_i, s.test_iteration_len>>

\* C21: in every interleaving of the workers a step of one worker changes the
\* state of no other worker and leaves the volumes as they are, and the gaps
\* a worker has entered are the first gaps of the walk it makes alone over
\* its own range.
C21_PrivateCursors ==
    [][/\ vols' = vols
       /\ \A w \in DOMAIN sd :
             /\ sd'[w] # sd[w] => \A v \in DOMAIN sd \ {w} : sd'[v] = sd[v]
             /\ IsPrefix(sd'[w].gaps, WorkerWalk(w))]_vars

\* two workers have moved in turn: both stream, the first is in its second
\* gap and the second has entered one, and their cursors differ
C21_Witness ==
    \E w1 \in DOMAIN sd : \E w2 \in DOMAIN sd \ {w1} :
       /\ sd[w1].gen_pc = "running" /\ sd[w2].gen_pc = "running"
       /\ Len(sd[w1].gaps) >= 2 /\ Len(sd[w2].gaps) >= 1
       /\ Cursor(sd[w1]) # Cursor(sd[w2])

(***************************************************************************)
(* Properties of the pair builder's gap and of its labels.                 *)
(***************************************************************************)

\* C22: for a positive label and a seed whose z-extent passed the z-span
\* check, the drop start lies in [zmin + 1, zmax - num_slices]: a slice of the
\* seed lies above the gap and the slice just below the gap,
\* drop_start + num_slices, is the gap's end and is not past zmax.
C22_PositiveMargin ==
    nd.pc # "off" /\ GapDrawn(nd.attempt) /\ nd.attempt.label = 1 =>
       /\ nd.attempt.drop_start \in
             (nd.attempt.zmin + 1)..(nd.attempt.zmax - nd.attempt.num_slices)
       /\ nd.attempt.drop_end = nd.attempt.drop_start + nd.attempt.num_slices
       /\ nd.attempt.drop_end <= nd.attempt.zmax

\* a positive example was built over the lowest gap its seed allows
C22_Witness ==
    /\ nd.pc = "done" /\ nd.attempt.label = 1
    /\ nd.attempt.num_slices >= 1
    /\ nd.attempt.drop_start = nd.attempt.zmax - nd.attempt.num_slices
    /\ nd.attempt.drop_start > nd.attempt.zmin + 1

\* C30: get_example(index) returns an example whose label is the one of the
\* requested index, 1 if (index mod true_length) is even and 0 if it is odd,
\* also when the example was produced by a retry.
C30_LabelOfRequest ==
    nd.pc = "done" => nd.label = LabelFromIndex(nd, nd.requested)

(***************************************************************************)
(* Properties of the sequencer at empty batches and empty gaps.            *)
(***************************************************************************)

\* C27: in one-example-at-a-time mode a load that installs an empty candidate
\* batch is not followed by a read past its end: the call that loaded it does
\* not end the stream by an error.
C27_ReadInRange ==
    [][\A w \in DOMAIN sd :
          /\ ~cfg.return_candidate_batch
          /\ sd'[w].loads = sd[w].loads + 1
          /\ sd'[w].test_iteration_len = 0
          => sd'[w].gen_pc # "raised"]_vars

\* C28: entering a gap whose slice above holds no fragment does not end the
\* stream by an error.
C28_SkipEmptyGap ==
    [][\A w \in DOMAIN sd :
          /\ Len(sd'[w].gaps) = Len(sd[w].gaps) + 1
          /\ Range(sd'[w].top_slice) \ {0} = {}
          => sd'[w].gen_pc # "raised"]_vars

(***************************************************************************)
(* Group identifiers.  Here sd holds two candidate batches, each known by  *)
(* the cursor it was loaded at, and the identifier given to it.            *)
(***************************************************************************)

MaxIdDrop == 11      \* gap starts of the tagged batches: 1..MaxIdDrop
MaxIdTop == 1        \* top-fragment indices of the tagged batches: 0..MaxIdTop

\* no identifier yet
NoId == -1

BatchCursors ==
    [cur_vol_i : 0..(MaxVols - 1), cur_drop_start : 1..MaxIdDrop,
     cur_neurite_i : 0..MaxIdTop]

\* the cursor of a batch being loaded
LoadedAt(c) ==
    [cur_vol_i |-> c.cur_vol_i, cur_drop_start |-> c.cur_drop_start,
     cur_neurite_i |-> c.cur_neurite_i, id |-> NoId]

\* load_next_candidate_batch with add_batch_id: the batch gets its identifier
TagBatch(w) ==
    /\ cfg.add_batch_id
    /\ sd[w].id = NoId
    /\ sd' = [sd EXCEPT ![w].id = CandidateBatchNum(sd[w])]
    /\ UNCHANGED <<vols, cfg, nd>>

IdsNext == \E w \in DOMAIN sd : TagBatch(w)

InitIds ==
    /\ cfg = [NoSliceDataset EXCEPT !.add_batch_id = TRUE]
    /\ vols = <<>>
    /\ nd = NoNeuriteDataset
    /\ \E c1 \in BatchCursors, c2 \in BatchCursors :
          sd = [w \in {0, 1} |-> IF w = 0 THEN LoadedAt(c1) ELSE LoadedAt(c2)]

SpecIds == InitIds /\ [][IdsNext]_vars

LoadedAtSame(a, b) ==
    /\ a.cur_vol_i = b.cur_vol_i
    /\ a.cur_drop_start = b.cur_drop_start
    /\ a.cur_neurite_i = b.cur_neurite_i

\* C29: two candidate batches loaded at different (volume index, gap start,
\* top-fragment index) triples never get the same group identifier.
C29_IdsIdentifyBatches ==
    sd[0].id # NoId /\ sd[1].id # NoId /\ ~LoadedAtSame(sd[0], sd[1]) =>
       sd[0].id # sd[1].id

(***************************************************************************)
(* Synthesis of a candidate batch, voxel by voxel.  A slice is a row of    *)
(* NumPixels labels and a volume a sequence of slices (slice z of the code *)
(* is element z + 1).  The relabeled gap volume holds context_slices       *)
(* slices above the gap, num_slices empty slices and context_slices slices *)
(* below; label TopLabel is the top fragment, and no label lies on both    *)
(* sides of the gap (the two sides were relabeled apart).  Here sd is one  *)
(* call of get_examples_from_top_class.                                    *)
(***************************************************************************)

NumPixels == 2           \* voxels of a slice
MaxStitchContext == 2    \* context_slices: 1..MaxStitchContext

TopLabel == 1
BottomLabels == {2, 3}

Slices(labels) == [1..NumPixels -> labels]

EmptySlice == [p \in 1..NumPixels |-> 0]

SliceHas(sl, c) == \E p \in DOMAIN sl : sl[p] = c

\* "Find min and max z slice on which c occurs": the first slice holding c
ZMin(vol, c) ==
    CHOOSE z \in 0..(Len(vol) - 1) :
       SliceHas(vol[z + 1], c) /\ \A y \in 0..(z - 1) : ~SliceHas(vol[y + 1], c)

\* section[src == c] = c on one slice
WriteWhere(section, src, c) ==
    [p \in DOMAIN section |-> IF src[p] = c THEN c ELSE section[p]]

\* bot_border[~mask] = 0
ZeroOutside(sl, mask) == [p \in DOMAIN sl |-> IF p \in mask THEN sl[p] ELSE 0]

\* FinalVolAfter for cur_vol = final_vol: the candidate is written into
\* final_vol itself
FinalVolShared(final_vol, cur_vol) == cur_vol

\* cur_vol = final_vol.copy(): writing the candidate leaves final_vol as it was
FinalVolAfter(final_vol, cur_vol) == final_vol

\* get_classes_sorted_by_distance(d_vol, top_c): the labels of the masked
\* bottom border other than background and the top fragment
MismatchClasses(bot_border, top_c) == {bot_border[p] : p \in DOMAIN bot_border} \ {0, top_c}

\* final_vol with its top section written
TopSection(vol, top_c, drop_start, top_z_len, mz) ==
    [i \in 1..mz |->
        IF i <= top_z_len
        THEN WriteWhere(EmptySlice, vol[drop_start - top_z_len + i], top_c)
        ELSE EmptySlice]

\* cur_vol: its bottom section written for candidate bot_c
BottomSection(cur_vol, vol, bot_c, drop_end, first) ==
    [i \in 1..Len(cur_vol) |->
        IF i > first
        THEN WriteWhere(cur_vol[i], vol[drop_end + i - first], bot_c)
        ELSE cur_vol[i]]

\* the loop over the candidates from candidate k on: cur_vol = final_vol.copy()
\* is written, checked and converted; the loop ends at a failed sanity check
RECURSIVE StitchFrom(_, _, _, _, _, _, _)
StitchFrom(final_vol, vol, order, ncomps, drop_end, first, k) ==
    IF k > Len(order) THEN [exc |-> "", stitched |-> <<>>]
    ELSE The({IF ~ThreeClasses(0..ncomps[k])
              THEN [exc |-> "AssertionError", stitched |-> <<cur_vol>>]
              ELSE The({[exc |-> rest.exc, stitched |-> <<cur_vol>> \o rest.stitched] :
                        rest \in {StitchFrom(FinalVolAfter(final_vol, cur_vol), vol, order,
                                             ncomps, drop_end, first, k + 1)}}) :
              cur_vol \in {BottomSection(final_vol, vol, order[k], drop_end, first)}})

\* BorderAfterMasking for bot_border = vol[drop_end]: the mask is applied to
\* the slice of the gap volume itself
BorderMaskedInPlace(vol, drop_end, mask) == ZeroOutside(vol[drop_end + 1], mask)

\* bot_border = vol[drop_end].copy(); bot_border[~mask] = 0: the slice of the
\* gap volume after the masking of its copy
BorderAfterMasking(vol, drop_end, mask) == vol[drop_end + 1]

\* get_examples_from_top_class on the arrays: the gap volume as the call
\* leaves it, the stitched sub-volume of every candidate, and the labels
StitchCandidates(j, mask, order, ncomps) ==
    LET vol == j.vol_relabeled
        drop_start == j.drop[1]
        drop_end == j.drop[2]
        num_slices == drop_end - drop_start
        top_z_len == Min(j.context_slices, drop_start - ZMin(vol, j.c))
        bot_z_len == Min(j.context_slices, Len(vol) - drop_end)
        mz == num_slices + top_z_len + bot_z_len
    IN The({[j EXCEPT
               !.pc = IF got.exc = "" THEN "done" ELSE "raised",
               !.exc = got.exc,
               !.vol_relabeled = [vol EXCEPT ![drop_end + 1] =
                                     BorderAfterMasking(vol, drop_end, mask)],
               !.order = order,
               !.first = num_slices + top_z_len,
               !.stitched = got.stitched,
               !.labels = IF got.exc # "" THEN <<>>
                          ELSE [i \in 1..Len(order) |->
                                   GroundTruth(j.label_map[j.c], j.label_map[order[i]])]] :
            got \in {StitchFrom(TopSection(vol, j.c, drop_start, top_z_len, mz), vol, order,
                                ncomps, drop_end, num_slices + top_z_len, 1)}})

\* the relabeled gap volumes of a gap of num_slices slices with the top
\* fragment on the slice above it
GapVolumes(context_slices, num_slices) ==
    {top \o [i \in 1..num_slices |-> EmptySlice] \o bot :
        top \in {q \in [1..context_slices -> Slices({0, TopLabel})] :
                    SliceHas(q[context_slices], TopLabel)},
        bot \in [1..context_slices -> Slices({0} \cup BottomLabels)]}

\* label_map: the original identifier of every relabeled fragment
LabelMaps ==
    {[l \in {TopLabel} \cup BottomLabels |-> IF l = TopLabel THEN TopOriginal ELSE f[l]] :
        f \in [BottomLabels -> 1..MaxOriginal]}

NewSynthesis(context_slices, num_slices, vol, label_map) ==
    [pc |-> "called", exc |-> "", c |-> TopLabel, context_slices |-> context_slices,
     drop |-> <<context_slices, context_slices + num_slices>>,
     vol_relabeled |-> vol, label_map |-> label_map,
     order |-> <<>>, first |-> 0, stitched |-> <<>>, labels |-> <<>>]

\* circular_mask(...): the voxels of the bottom border within the radius
Masks == (SUBSET (1..NumPixels)) \ {{}}

\* get_examples_from_top_class runs: every mask the centre of the top border
\* can give, every distance order of the candidates, every outcome of
\* connected_components
Synthesize ==
    /\ sd.pc = "called"
    /\ \E mask \in Masks :
       \E order \in Orderings(MismatchClasses(
                       ZeroOutside(sd.vol_relabeled[sd.drop[2] + 1], mask), sd.c)) :
       \E ncomps \in [1..Len(order) -> 2..3] :
          sd' = StitchCandidates(sd, mask, order, ncomps)
    /\ UNCHANGED <<vols, cfg, nd>>

StitchNext == Synthesize

InitStitch ==
    /\ \E context_slices \in 1..MaxStitchContext : \E num_slices \in 1..MaxSlices :
          /\ cfg = [NoSliceDataset EXCEPT !.num_slices = num_slices,
                                          !.context_slices = context_slices]
          /\ vols = <<2 * context_slices + num_slices>>
          /\ \E vol \in GapVolumes(context_slices, num_slices) :
             \E label_map \in LabelMaps :
                sd = NewSynthesis(context_slices, num_slices, vol, label_map)
    /\ nd = NoNeuriteDataset

SpecStitch == InitStitch /\ [][StitchNext]_vars

(***************************************************************************)
(* Properties of the synthesis.                                            *)
(***************************************************************************)

\* slice i of a stitched sub-volume holds label c where src holds it, and
\* nothing else
OnlyWhere(sl, src, c) == \A p \in DOMAIN sl : sl[p] = IF src[p] = c THEN c ELSE 0

\* C24: in the stitched sub-volume of every candidate the top section holds
\* the voxels of the top fragment and no other, the bottom section holds the
\* voxels of that one candidate and no other (none of an earlier candidate),
\* and the gap slices between them are empty.
C24_CandidateIsolation ==
    sd.pc \in {"done", "raised"} =>
       \A k \in 1..Len(sd.stitched) :
          \A i \in 1..Len(sd.stitched[k]) :
             LET top_z_len == sd.first - cfg.num_slices
             IN IF i <= top_z_len
                THEN OnlyWhere(sd.stitched[k][i],
                               sd.vol_relabeled[sd.drop[1] - top_z_len + i], sd.c)
                ELSE IF i <= sd.first
                THEN sd.stitched[k][i] = EmptySlice
                ELSE OnlyWhere(sd.stitched[k][i],
                               sd.vol_relabeled[sd.drop[2] + i - sd.first], sd.order[k])

\* two candidates were stitched, each with voxels in its bottom section
C24_Witness ==
    /\ sd.pc = "done" /\ Len(sd.stitched) = 2
    /\ \A k \in 1..2 :
          SliceHas(sd.stitched[k][sd.first + 1], sd.order[k])

\* C25: a call of get_examples_from_top_class leaves the relabeled gap
\* volume, the correspondence map and the source volumes as they were.
C25_ReadOnlySynthesis ==
    [][sd'.pc # sd.pc =>
          /\ sd'.vol_relabeled = sd.vol_relabeled
          /\ sd'.label_map = sd.label_map
          /\ vols' = vols]_vars

\* a batch was synthesized under a mask that leaves out a labelled voxel of
\* the bottom border
C25_Witness ==
    /\ sd.pc = "done" /\ Len(sd.stitched) >= 1
    /\ \E l \in BottomLabels :
          SliceHas(sd.vol_relabeled[sd.drop[2] + 1], l) /\ l \notin Range(sd.order)

(***************************************************************************)
(* The sequencer iterated more than once: iter(dataset) is called again on *)
(* the same instance, as a loop over epochs does.  Every gap has two top   *)
(* fragments, each with one or two candidates that pass the sanity check.  *)
(***************************************************************************)

MaxEpochGaps == 3    \* a new iteration starts only before this many gaps were entered

EpochSlices == {<<0, 1, 2>>}

EpochLists ==
    {<<[orig |-> TopOriginal, ncomp |-> 2]>>,
     <<[orig |-> 2, ncomp |-> 2], [orig |-> TopOriginal, ncomp |-> 2]>>}

EpochGenNext(w) == GenNextOver(w, EpochSlices, EpochLists)

\* process w calls iter(dataset) again: __iter__ returns a new generator over
\* the instance as the last iteration left it
ReIter(w) ==
    /\ sd[w].gen_pc \in {"running", "done"}
    /\ Len(sd[w].gaps) < MaxEpochGaps
    /\ sd' = [sd EXCEPT ![w] = IterCall(sd[w], w)]
    /\ UNCHANGED <<vols, cfg, nd>>

EpochsNext == \E w \in DOMAIN sd : Iter(w) \/ EpochGenNext(w) \/ ReIter(w)

EpochConfigs ==
    [num_slices : {1}, context_slices : 1..MaxContext,
     add_batch_id : {FALSE}, truncate_candidates : {FALSE},
     return_candidate_batch : BOOLEAN, randomize : {FALSE}, num_workers : {0}]

InitEpochs ==
    /\ cfg \in EpochConfigs
    /\ \E n \in 1..MaxVols :
          vols \in [1..n -> MinDepth(cfg)..(MinDepth(cfg) + MaxExtra)]
    /\ sd = [w \in {0} |-> NewSliceDataset]
    /\ nd = NoNeuriteDataset

SpecEpochs == InitEpochs /\ [][EpochsNext]_vars

(***************************************************************************)
(* Properties of the gap state and of exhaustion.                          *)
(***************************************************************************)

\* C23: whenever a candidate batch is synthesized, the relabeled gap volume
\* (with its correspondence map and top-fragment list) is the one built for
\* the current (volume index, gap start); it is rebuilt when the gap is
\* entered and is the same for every top fragment of that gap.
C23_GapStateCurrent ==
    [][\A w \in DOMAIN sd :
          sd'[w].loads = sd[w].loads + 1 =>
             /\ sd'[w].vol_relabeled = <<sd'[w].cur_vol_i, sd'[w].cur_drop_start>>
             /\ Len(sd'[w].gaps) = Len(sd[w].gaps) =>
                   /\ sd'[w].vol_relabeled = sd[w].vol_relabeled
                   /\ sd'[w].top_neurites = sd[w].top_neurites]_vars

\* the cursor is past the last volume
Exhausted(s) == s.cur_vol_i >= Len(vols)

\* C26: once the sequencer is exhausted no later request, a new iteration
\* included, raises an error.
C26_ExhaustionAbsorbing ==
    \A w \in DOMAIN sd : Exhausted(sd[w]) => sd[w].gen_pc # "raised"

(***************************************************************************)
(* Properties of the seed filter.                                          *)
(***************************************************************************)

\* C31: every seed class the constructor admits passes the builder's z-span
\* check, zmax - zmin >= num_slices + 2, for every num_slices drawn from the
\* configured range: no attempt of get_example stops at that check.
C31_SeedFilterSuffices ==
    nd.pc # "off" /\ nd.attempt # NoAttempt => GapDrawn(nd.attempt)

(***************************************************************************)
(* Properties of the randomized walk, of the emission and of the counters. *)
(***************************************************************************)

\* the gap starts valid in volume vol_i (counted from 0)
ValidStarts(vol_i) ==
    cfg.context_slices..(vols[vol_i + 1] - cfg.num_slices - cfg.context_slices - 1)

\* C32: with randomize enabled every gap entered has its volume index in
\* [0, number of volumes) and its gap start in [range_start, range_stop) of
\* that volume, and the stream never ends by exhaustion.
C32_RandomizedValid ==
    cfg.randomize =>
       \A w \in DOMAIN sd :
          /\ sd[w].gen_pc # "done"
          /\ \A g \in Range(sd[w].gaps) :
                g[1] \in 0..(Len(vols) - 1) /\ g[2] \in ValidStarts(g[1])

\* the example and the label get_next hands out at read position i (from 0)
ItemAt(s, i) ==
    [x |-> s.test_iteration_batch.examples[i + 1],
     y |-> s.test_iteration_batch.labels[i + 1]]

\* C33: in one-example-at-a-time mode every call that yields hands out the
\* item at the read position of the current batch and moves the position on
\* by one; a new batch is loaded only when the position has reached the end
\* of the current one, and it is then read from its first item.  The stream
\* is so the concatenation of the batches after truncation, in load order and
\* candidate order, with no item twice and none skipped.
C33_LosslessEmission ==
    [][\A w \in DOMAIN sd :
          ~cfg.return_candidate_batch =>
             /\ sd'[w].loads # sd[w].loads =>
                   /\ sd[w].test_iteration_i = sd[w].test_iteration_len
                   /\ sd[w].test_iteration_len = Len(sd[w].test_iteration_batch.examples)
             /\ sd'[w].gen_pc = "running" /\ sd'[w] # sd[w] =>
                   IF sd'[w].loads = sd[w].loads
                   THEN /\ sd[w].test_iteration_i < sd[w].test_iteration_len
                        /\ sd'[w].test_iteration_batch = sd[w].test_iteration_batch
                        /\ sd'[w].test_iteration_i = sd[w].test_iteration_i + 1
                        /\ sd'[w].out = ItemAt(sd[w], sd[w].test_iteration_i)
                   ELSE /\ sd'[w].test_iteration_i = 1
                        /\ sd'[w].test_iteration_len = Len(sd'[w].test_iteration_batch.examples)
                        /\ sd'[w].out = ItemAt(sd'[w], 0)]_vars

\* two batches of two examples were loaded and the second was read to its end
C33_Witness ==
    \E w \in DOMAIN sd :
       /\ ~cfg.return_candidate_batch /\ sd[w].gen_pc = "running"
       /\ sd[w].loads = 2 /\ sd[w].total_examples = 4
       /\ sd[w].test_iteration_i = 2

\* the statistics counters of one instance
Counters(s) == <<s.no_true, s.multi_true, s.num_true, s.total_examples>>

\* C34: on every sequencer instance the counters start at zero; each batch
\* load adds the size of the batch it installs (the batch after truncation)
\* to total_examples and the number of positive labels of that batch to
\* num_true; nothing else changes a counter and no counter ever decreases;
\* and with truncation enabled num_true is the number of batches loaded
\* minus no_true.
C34_CounterAccounting ==
    /\ [](\A w \in DOMAIN sd :
             /\ sd[w].loads = 0 => Counters(sd[w]) = <<0, 0, 0, 0>>
             /\ cfg.truncate_candidates => sd[w].num_true = sd[w].loads - sd[w].no_true)
    /\ [][\A w \in DOMAIN sd :
             /\ \A k \in 1..4 : Counters(sd'[w])[k] >= Counters(sd[w])[k]
             /\ IF sd'[w].loads = sd[w].loads
                THEN Counters(sd'[w]) = Counters(sd[w])
                ELSE /\ sd'[w].loads = sd[w].loads + 1
                     /\ sd'[w].total_examples =
                           sd[w].total_examples + Len(sd'[w].test_iteration_batch.examples)
                     /\ sd'[w].num_true =
                           sd[w].num_true + CountNonzero(BatchLabels(sd'[w]))]_vars

\* with truncation on, one batch had no positive candidate and another, of
\* two positive candidates, was cut to its first
C34_Witness ==
    \E w \in DOMAIN sd :
       /\ cfg.truncate_candidates
       /\ sd[w].loads = 2 /\ sd[w].no_true = 1 /\ sd[w].multi_true = 1
       /\ sd[w].num_true = 1 /\ sd[w].total_examples >= 2

====
